---- MODULE Spec2Model ----
(***************************************************************************)
(* State-machine model of the histocartography training script             *)
(* (experiments/histo-seg/train.py), its batch collator and the S3 helpers *)
(* of histocartography/io/utils.py.                                        *)
(*                                                                         *)
(* Three specifications share the module:                                  *)
(*   Spec         one run of train_graph_classifier                        *)
(*   SpecCollate  collate applied to a bounded list of samples             *)
(*   SpecS3       one call of download_file_to_local / save_local_file     *)
(***************************************************************************)
EXTENDS Integers, Sequences, FiniteSets, TLC

(* ---------------------------------------------------------------- bounds *)
\* Weights are fixed-point numbers in units of 1/WScale; 0.5 is HalfScale.
HalfScale == 1
WScale == 2 * HalfScale
\* Per-batch loss values returned by the criteria range over 0..MaxLoss.
MaxLoss == 1
MaxEpochs == 2
MaxFreq == 2
MaxSamples == 4
MaxValSamples == 1
MaxBatch == 2
\* collate: at most MaxN samples of at most MaxNodes nodes
MaxN == 2
MaxNodes == 2

\* Python's None is the empty tuple and a value v that may be None is <<v>>.
None == <<>>
Some(v) == <<v>>
Val(o) == o[1]

VARIABLES
    \* ---- train_graph_classifier
    cfg,                \* the arguments of the call
    pc,                 \* position in the function
    error,              \* the exception that ended the run, or None
    overfit_test,       \* data_config["overfit_test"]
    use_graph_head, use_node_head,
    node_loss_weight, graph_loss_weight,
    epoch, iteration,
    graph_loss, node_loss,
    backpropagated,     \* loss on which backward() ran in the training iteration
                        \* just executed (x WScale); None outside the training pass
    ops,                \* the calls of the last batch, in order
    grad,               \* batches whose gradient is held in the parameters' .grad
    applied,            \* the gradient state the last optimizer.step() consumed
    optimizer_steps,    \* number of optimizer.step() calls
    params,             \* version of the model's parameter state
    training,           \* model.training
    now,                \* clock
    time_before,        \* time_before_training / time_before_validation
    train_acc, valid_acc,          \* iteration outputs held by the two loggers
    train_records, valid_records,  \* what the two loggers flushed
    valid_entries,      \* epochs in which the validation path was entered
    train_batches,      \* training batches consumed so far
    \* ---- collate
    samples, batch, cpc,
    \* ---- S3 helpers
    call, spc, s3, result, raised, s3log

trainVars == <<cfg, pc, error, overfit_test, use_graph_head, use_node_head,
               node_loss_weight, graph_loss_weight, epoch, iteration,
               graph_loss, node_loss, backpropagated, ops, grad, applied,
               optimizer_steps, params, training, now, time_before,
               train_acc, valid_acc, train_records, valid_records,
               valid_entries, train_batches>>
collateVars == <<samples, batch, cpc>>
s3Vars == <<call, spc, s3, result, raised, s3log>>
vars == <<trainVars, collateVars, s3Vars>>

(* ------------------------------------------------------------- the inputs *)
\* loss["node_weight"]: absent, or a number; -1 and WScale + 1 lie outside [0, 1].
NodeWeights == {None} \cup {Some(w) : w \in -1 .. WScale + 1}
LossValues == 0 .. MaxLoss

AllConfigs ==
    [graph_classifier_config : BOOLEAN,   \* TRUE: the section is not None
     node_classifier_config : BOOLEAN,
     node_weight : NodeWeights,
     test : BOOLEAN,
     clip_gradient_norm : BOOLEAN,        \* TRUE: a ceiling is given
     validation_frequency : 1 .. MaxFreq,
     nr_epochs : 0 .. MaxEpochs,
     batch_size : 1 .. MaxBatch,
     n_train : 1 .. MaxSamples,           \* len(training_dataset)
     n_valid : 0 .. MaxValSamples]        \* len(validation_dataset)

\* With both heads every weight is tried. With one head the weight is never
\* read: the absent one and one outside [0, 1] are tried. With no head the
\* weight is absent.
Configs ==
    {c \in AllConfigs :
        \/ c.graph_classifier_config /\ c.node_classifier_config
        \/ /\ c.graph_classifier_config \/ c.node_classifier_config
           /\ c.node_weight \in {None, Some(WScale + 1)}
        \/ c.node_weight = None}

(* ------------------------------------------------------------ idle states *)
TrainIdle ==
    /\ cfg = None /\ pc = "idle" /\ error = None /\ overfit_test = FALSE
    /\ use_graph_head = FALSE /\ use_node_head = FALSE
    /\ node_loss_weight = None /\ graph_loss_weight = None
    /\ epoch = 0 /\ iteration = 0
    /\ graph_loss = None /\ node_loss = None /\ backpropagated = None
    /\ ops = <<>> /\ grad = {} /\ applied = {}
    /\ optimizer_steps = 0 /\ params = 0 /\ training = TRUE
    /\ now = 0 /\ time_before = 0
    /\ train_acc = 0 /\ valid_acc = 0
    /\ train_records = <<>> /\ valid_records = <<>>
    /\ valid_entries = <<>> /\ train_batches = 0

CollateIdle == samples = <<>> /\ batch = None /\ cpc = "idle"

S3Idle ==
    /\ call = None /\ spc = "idle" /\ s3 = None
    /\ result = None /\ raised = FALSE /\ s3log = <<>>

(* ------------------------------------------------- train_graph_classifier *)
\* loss.get("node_weight", 0.5)
NodeLossWeight(c) == IF c.node_weight = None THEN HalfScale ELSE Val(c.node_weight)

\* Mutant: the lower bound of the assertion is forgotten.
WeightInRangeNoLower(w) == w <= WScale

\* the assertion 0.0 <= node_loss_weight <= 1.0
WeightInRange(w) == 0 <= w /\ w <= WScale

\* graph_loss_weight = 1.0 - node_loss_weight
GraphLossWeight(w) == WScale - w

\* Mutant: the two weights are applied to the wrong losses.
CombinedLossSwapped(gw, g, nw, n) == gw * n + nw * g

\* graph_loss_weight * graph_loss + node_loss_weight * node_loss
CombinedLoss(gw, g, nw, n) == gw * g + nw * n

\* The tensor on which backward() is called in a training iteration, x WScale;
\* None when no branch of the if/elif chain is taken.
BackwardLoss(ug, un, gw, g, nw, n) ==
    IF ug /\ un THEN Some(CombinedLoss(Val(gw), g, Val(nw), n))
    ELSE IF un THEN Some(WScale * n)
    ELSE IF ug THEN Some(WScale * g)
    ELSE None

\* Mutant: the last, smaller batch is dropped.
NumBatchesDropLast(m, b) == m \div b

\* len(DataLoader(dataset, batch_size=b)): the last, smaller batch is kept
NumBatches(m, b) == (m + b - 1) \div b

\* Mutant: the epoch is counted from one.
ValidationDueOneBased(e, f) == (e + 1) % f = 0

\* epoch % validation_frequency == 0
ValidationDue(e, f) == e % f = 0

\* Mutant: the model is handed over whatever the mode.
ModelForLoggerAlways(test) == Some("model")

\* model=model if not test else None
ModelForLogger(test) == IF ~test THEN Some("model") ELSE None

\* (datetime.datetime.now() - time_before).total_seconds()
Duration(before, current) == current - before

\* .backward() adds the batch's gradient to what the parameters' .grad holds;
\* nothing in the loop clears .grad.
Backward(g, e, i) == g \cup {<<e, i>>}

\* The calls of one training iteration, in program order.
TrainOps(ug, un, clip) ==
    <<"forward">>
    \o (IF ug THEN <<"graph_loss">> ELSE <<>>)
    \o (IF un THEN <<"node_loss">> ELSE <<>>)
    \o (IF ug \/ un THEN <<"backward">> ELSE <<>>)
    \o (IF clip THEN <<"clip_grad_norm">> ELSE <<>>)
    \o <<"optimizer_step", "record">>

\* The calls of one validation iteration, in program order.
ValidOps(ug, un) ==
    <<"forward">>
    \o (IF ug THEN <<"graph_loss">> ELSE <<>>)
    \o (IF un THEN <<"node_loss">> ELSE <<>>)
    \o <<"record">>

\* optimizer.step(): parameters without a gradient are left as they are.
OptimizerStep(p, g) == IF g = {} THEN p ELSE p + 1

\* Lines 72-164: everything before the epoch loop.
Setup ==
    /\ pc = "start"
    /\ overfit_test' = cfg.test
    /\ use_graph_head' = cfg.graph_classifier_config
    /\ use_node_head' = cfg.node_classifier_config
    /\ IF cfg.graph_classifier_config /\ cfg.node_classifier_config
       THEN /\ node_loss_weight' = Some(NodeLossWeight(cfg))
            /\ IF WeightInRange(NodeLossWeight(cfg))
               THEN /\ graph_loss_weight' = Some(GraphLossWeight(NodeLossWeight(cfg)))
                    /\ pc' = "epoch"
                    /\ error' = error
               ELSE /\ graph_loss_weight' = graph_loss_weight
                    /\ pc' = "failed"
                    /\ error' = Some([type |-> "AssertionError",
                                      value |-> NodeLossWeight(cfg)])
       ELSE /\ pc' = "epoch"
            /\ UNCHANGED <<node_loss_weight, graph_loss_weight, error>>
    /\ UNCHANGED <<cfg, epoch, iteration, graph_loss, node_loss, backpropagated,
                   ops, grad, applied, optimizer_steps, params, training, now,
                   time_before, train_acc, valid_acc, train_records,
                   valid_records, valid_entries, train_batches>>
    /\ UNCHANGED <<collateVars, s3Vars>>

\* for epoch in trange(nr_epochs): ... model.train()
EpochStart ==
    /\ pc = "epoch"
    /\ epoch < cfg.nr_epochs
    /\ time_before' = now
    /\ training' = TRUE
    /\ iteration' = 0
    /\ pc' = "train"
    /\ UNCHANGED <<cfg, error, overfit_test, use_graph_head, use_node_head,
                   node_loss_weight, graph_loss_weight, epoch, graph_loss,
                   node_loss, backpropagated, ops, grad, applied,
                   optimizer_steps, params, now, train_acc, valid_acc,
                   train_records, valid_records, valid_entries, train_batches>>
    /\ UNCHANGED <<collateVars, s3Vars>>

\* One iteration of the loop over training_loader (lines 171-211).
TrainBatch ==
    /\ pc = "train"
    /\ iteration < NumBatches(cfg.n_train, cfg.batch_size)
    /\ \E g \in LossValues, n \in LossValues :
        /\ graph_loss' = IF use_graph_head THEN Some(g) ELSE graph_loss
        /\ node_loss' = IF use_node_head THEN Some(n) ELSE node_loss
        /\ backpropagated' = BackwardLoss(use_graph_head, use_node_head,
                                          graph_loss_weight, g,
                                          node_loss_weight, n)
    /\ grad' = IF use_graph_head \/ use_node_head
               THEN Backward(grad, epoch, iteration) ELSE grad
    /\ applied' = grad'
    /\ params' = OptimizerStep(params, grad')
    /\ optimizer_steps' = optimizer_steps + 1
    /\ ops' = TrainOps(use_graph_head, use_node_head, cfg.clip_gradient_norm)
    /\ train_acc' = train_acc + 1
    /\ train_batches' = train_batches + 1
    /\ iteration' = iteration + 1
    /\ now' = now + 1
    /\ UNCHANGED <<cfg, pc, error, overfit_test, use_graph_head, use_node_head,
                   node_loss_weight, graph_loss_weight, epoch, training,
                   time_before, valid_acc, train_records, valid_records,
                   valid_entries>>
    /\ UNCHANGED <<collateVars, s3Vars>>

\* training_metric_logger.log_and_clear(step=epoch) and the duration metric.
TrainFlush ==
    /\ pc = "train"
    /\ iteration = NumBatches(cfg.n_train, cfg.batch_size)
    /\ train_records' = Append(train_records,
                               [step |-> epoch, outputs |-> train_acc,
                                seconds |-> Duration(time_before, now)])
    /\ train_acc' = 0
    /\ backpropagated' = None
    /\ pc' = "check"
    /\ UNCHANGED <<cfg, error, overfit_test, use_graph_head, use_node_head,
                   node_loss_weight, graph_loss_weight, epoch, iteration,
                   graph_loss, node_loss, ops, grad, applied,
                   optimizer_steps, params, training, now, time_before,
                   valid_acc, valid_records, valid_entries, train_batches>>
    /\ UNCHANGED <<collateVars, s3Vars>>

\* if epoch % validation_frequency == 0: ... model.eval()
ValidStart ==
    /\ pc = "check"
    /\ ValidationDue(epoch, cfg.validation_frequency)
    /\ valid_entries' = Append(valid_entries, epoch)
    /\ time_before' = now
    /\ training' = FALSE
    /\ iteration' = 0
    /\ pc' = "valid"
    /\ UNCHANGED <<cfg, error, overfit_test, use_graph_head, use_node_head,
                   node_loss_weight, graph_loss_weight, epoch, graph_loss,
                   node_loss, backpropagated, ops, grad, applied,
                   optimizer_steps, params, now, train_acc, valid_acc,
                   train_records, valid_records, train_batches>>
    /\ UNCHANGED <<collateVars, s3Vars>>

\* The condition is false: the loop goes on with the next epoch.
SkipValidation ==
    /\ pc = "check"
    /\ ~ValidationDue(epoch, cfg.validation_frequency)
    /\ epoch' = epoch + 1
    /\ pc' = "epoch"
    /\ UNCHANGED <<cfg, error, overfit_test, use_graph_head, use_node_head,
                   node_loss_weight, graph_loss_weight, iteration, graph_loss,
                   node_loss, backpropagated, ops, grad, applied,
                   optimizer_steps, params, training, now, time_before,
                   train_acc, valid_acc, train_records, valid_records,
                   valid_entries, train_batches>>
    /\ UNCHANGED <<collateVars, s3Vars>>

\* One iteration of the loop over validation_loader (lines 225-252).
ValidBatch ==
    /\ pc = "valid"
    /\ iteration < NumBatches(cfg.n_valid, cfg.batch_size)
    /\ \E g \in LossValues, n \in LossValues :
        /\ graph_loss' = IF use_graph_head THEN Some(g) ELSE graph_loss
        /\ node_loss' = IF use_node_head THEN Some(n) ELSE node_loss
    /\ ops' = ValidOps(use_graph_head, use_node_head)
    /\ valid_acc' = valid_acc + 1
    /\ iteration' = iteration + 1
    /\ now' = now + 1
    /\ UNCHANGED <<cfg, pc, error, overfit_test, use_graph_head, use_node_head,
                   node_loss_weight, graph_loss_weight, epoch, backpropagated,
                   grad, applied, optimizer_steps, params, training,
                   time_before, train_acc, train_records, valid_records,
                   valid_entries, train_batches>>
    /\ UNCHANGED <<collateVars, s3Vars>>

\* validation_metric_logger.log_and_clear(step=epoch, model=...) and the
\* duration metric; the loop goes on with the next epoch.
ValidFlush ==
    /\ pc = "valid"
    /\ iteration = NumBatches(cfg.n_valid, cfg.batch_size)
    /\ valid_records' = Append(valid_records,
                               [step |-> epoch, outputs |-> valid_acc,
                                seconds |-> Duration(time_before, now),
                                model |-> ModelForLogger(cfg.test)])
    /\ valid_acc' = 0
    /\ epoch' = epoch + 1
    /\ pc' = "epoch"
    /\ UNCHANGED <<cfg, error, overfit_test, use_graph_head, use_node_head,
                   node_loss_weight, graph_loss_weight, iteration, graph_loss,
                   node_loss, backpropagated, ops, grad, applied,
                   optimizer_steps, params, training, now, time_before,
                   train_acc, train_records, valid_entries, train_batches>>
    /\ UNCHANGED <<collateVars, s3Vars>>

\* trange(nr_epochs) is exhausted: the function returns.
Finish ==
    /\ pc = "epoch"
    /\ epoch = cfg.nr_epochs
    /\ pc' = "done"
    /\ UNCHANGED <<cfg, error, overfit_test, use_graph_head, use_node_head,
                   node_loss_weight, graph_loss_weight, epoch, iteration,
                   graph_loss, node_loss, backpropagated, ops, grad, applied,
                   optimizer_steps, params, training, now, time_before,
                   train_acc, valid_acc, train_records, valid_records,
                   valid_entries, train_batches>>
    /\ UNCHANGED <<collateVars, s3Vars>>

Init ==
    /\ cfg \in Configs
    /\ pc = "start" /\ error = None /\ overfit_test = FALSE
    /\ use_graph_head = FALSE /\ use_node_head = FALSE
    /\ node_loss_weight = None /\ graph_loss_weight = None
    /\ epoch = 0 /\ iteration = 0
    /\ graph_loss = None /\ node_loss = None /\ backpropagated = None
    /\ ops = <<>> /\ grad = {} /\ applied = {}
    /\ optimizer_steps = 0 /\ params = 0 /\ training = TRUE
    /\ now = 0 /\ time_before = 0
    /\ train_acc = 0 /\ valid_acc = 0
    /\ train_records = <<>> /\ valid_records = <<>>
    /\ valid_entries = <<>> /\ train_batches = 0
    /\ CollateIdle
    /\ S3Idle

Next ==
    \/ Setup
    \/ EpochStart
    \/ TrainBatch
    \/ TrainFlush
    \/ ValidStart
    \/ SkipValidation
    \/ ValidBatch
    \/ ValidFlush
    \/ Finish

Spec == Init /\ [][Next]_vars

(* ----------------------------------------------------------------- collate *)
RECURSIVE SumSeq(_)
SumSeq(q) == IF q = <<>> THEN 0 ELSE q[1] + SumSeq(Tail(q))

\* The class ids of a two-class dataset.
Classes == {0, 1}

\* One-hot graph label of class c.
OneHot(c) == [i \in 1 .. Cardinality(Classes) |-> IF i = c + 1 THEN 1 ELSE 0]

\* A sample of the dataset: a graph, its one-hot label, one label per node.
Samples ==
    UNION {[graph : {[num_nodes |-> k]},
            graph_label : {OneHot(c) : c \in Classes},
            node_labels : [1 .. k -> Classes]] : k \in 1 .. MaxNodes}

SampleLists == UNION {[1 .. n -> Samples] : n \in 1 .. MaxN}

\* dgl.batch(graphs): the disjoint union, which keeps the node count of each
\* graph in the order of the list.
DglBatch(graphs) ==
    [batch_size |-> Len(graphs),
     batch_num_nodes |-> [i \in 1 .. Len(graphs) |-> graphs[i].num_nodes],
     number_of_nodes |-> SumSeq([i \in 1 .. Len(graphs) |-> graphs[i].num_nodes])]

\* torch.stack(tensors): a matrix whose row i is tensors[i].
TorchStack(tensors) == [i \in 1 .. Len(tensors) |-> tensors[i]]

\* Mutant: the vectors are joined last to first.
RECURSIVE TorchCatReversed(_)
TorchCatReversed(tensors) ==
    IF tensors = <<>> THEN <<>> ELSE TorchCatReversed(Tail(tensors)) \o tensors[1]

\* torch.cat(tensors): the vectors joined in the order of the list.
RECURSIVE TorchCat(_)
TorchCat(tensors) ==
    IF tensors = <<>> THEN <<>> ELSE tensors[1] \o TorchCat(Tail(tensors))

\* graphs, graph_labels, node_labels = map(list, zip(*samples))
Unzip(ss) ==
    [graphs |-> [i \in 1 .. Len(ss) |-> ss[i].graph],
     graph_labels |-> [i \in 1 .. Len(ss) |-> ss[i].graph_label],
     node_labels |-> [i \in 1 .. Len(ss) |-> ss[i].node_labels]]

CollateResult(ss) ==
    [graph |-> DglBatch(Unzip(ss).graphs),
     graph_labels |-> TorchStack(Unzip(ss).graph_labels),
     node_labels |-> TorchCat(Unzip(ss).node_labels)]

Collate ==
    /\ cpc = "start"
    /\ batch' = Some(CollateResult(samples))
    /\ cpc' = "done"
    /\ UNCHANGED samples
    /\ UNCHANGED <<trainVars, s3Vars>>

InitCollate ==
    /\ samples \in SampleLists
    /\ batch = None
    /\ cpc = "start"
    /\ TrainIdle
    /\ S3Idle

NextCollate == Collate

SpecCollate == InitCollate /\ [][NextCollate]_vars

(* -------------------------------------------------------------- S3 helpers *)
\* One call: which helper, whether the caller passes s3, whether the access
\* keys are in the environment, and which of the external calls succeed.
Calls ==
    [fn : {"download_file_to_local", "save_local_file"},
     s3_given : BOOLEAN,
     env_keys : BOOLEAN,
     resource_ok : BOOLEAN,     \* boto3.resource returns
     open_ok : BOOLEAN,         \* open(local_name, "wb") succeeds
     transfer_ok : BOOLEAN,     \* download_fileobj / upload_file succeeds
     local_name : {"tmp.svs", "slide.svs"}]

\* if s3 is None: s3 = get_s3()   -- before the try block of either helper
Enter ==
    /\ spc = "start"
    /\ IF call.s3_given
       THEN s3' = Some("given") /\ spc' = "transfer"
       ELSE s3' = s3 /\ spc' = "get_s3"
    /\ UNCHANGED <<call, result, raised, s3log>>
    /\ UNCHANGED <<trainVars, collateVars>>

\* get_s3 with no keys given: a missing environment variable is logged, then
\* boto3.resource is called with whatever keys there are.
GetS3 ==
    /\ spc = "get_s3"
    /\ IF call.resource_ok
       THEN /\ s3' = Some("resource")
            /\ spc' = "transfer"
            /\ s3log' = (IF call.env_keys THEN <<>> ELSE <<"error: no access keys">>)
                        \o <<"debug: connection established">>
            /\ UNCHANGED raised
       ELSE /\ raised' = TRUE
            /\ spc' = "raising"
            /\ s3log' = IF call.env_keys THEN <<>> ELSE <<"error: no access keys">>
            /\ UNCHANGED s3
    /\ UNCHANGED <<call, result>>
    /\ UNCHANGED <<trainVars, collateVars>>

\* The exception of get_s3() is raised outside the try block of the helper
\* and leaves it.
Propagate ==
    /\ spc = "raising"
    /\ spc' = "done"
    /\ UNCHANGED <<call, s3, result, raised, s3log>>
    /\ UNCHANGED <<trainVars, collateVars>>

\* download_file_to_local, from the try block to the return
Download ==
    /\ spc = "transfer"
    /\ call.fn = "download_file_to_local"
    /\ IF call.open_ok /\ call.transfer_ok
       THEN /\ result' = Some(call.local_name)
            /\ s3log' = s3log \o <<"debug: downloading">>
       ELSE /\ result' = None
            /\ s3log' = s3log \o <<"error: could not be downloaded">>
    /\ spc' = "done"
    /\ UNCHANGED <<call, s3, raised>>
    /\ UNCHANGED <<trainVars, collateVars>>

\* save_local_file, from the try block to the end of the function
Save ==
    /\ spc = "transfer"
    /\ call.fn = "save_local_file"
    /\ result' = None
    /\ s3log' = s3log \o (IF call.transfer_ok THEN <<"debug: saved">>
                          ELSE <<"error: saving">>)
    /\ spc' = "done"
    /\ UNCHANGED <<call, s3, raised>>
    /\ UNCHANGED <<trainVars, collateVars>>

InitS3 ==
    /\ call \in Calls
    /\ spc = "start" /\ s3 = None /\ result = None /\ raised = FALSE
    /\ s3log = <<>>
    /\ TrainIdle
    /\ CollateIdle

NextS3 ==
    \/ Enter
    \/ GetS3
    \/ Propagate
    \/ Download
    \/ Save

SpecS3 == InitS3 /\ [][NextS3]_vars

(* ================================================================ claims *)
Range(q) == {q[i] : i \in 1 .. Len(q)}
Min(a, b) == IF a <= b THEN a ELSE b
Max(a, b) == IF a <= b THEN b ELSE a

\* The state right after a training iteration of the current epoch.
AfterTrainBatch == pc = "train" /\ iteration > 0

(* ---- C1 *)
NodeCounts == [i \in 1 .. Len(samples) |-> samples[i].graph.num_nodes]
Offset(i) == SumSeq(SubSeq(NodeCounts, 1, i - 1))

\* C1: collate of N >= 1 samples returns one batch whose label matrix has N
\* rows, row i being the label of sample i, whose per-graph node counts are in
\* input order, and whose node-label vector is the samples' node-label vectors
\* joined in input order, of length the sum of the node counts.
C1_CollateKeepsOrder ==
    cpc = "done" =>
        /\ batch # None
        /\ Len(Val(batch).graph_labels) = Len(samples)
        /\ \A i \in 1 .. Len(samples) :
             /\ Val(batch).graph_labels[i] = samples[i].graph_label
             /\ Val(batch).graph.batch_num_nodes[i] = samples[i].graph.num_nodes
             /\ \A j \in 1 .. samples[i].graph.num_nodes :
                  Val(batch).node_labels[Offset(i) + j] = samples[i].node_labels[j]
        /\ Len(Val(batch).graph.batch_num_nodes) = Len(samples)
        /\ Len(Val(batch).node_labels) = SumSeq(NodeCounts)

C1_Witness ==
    /\ cpc = "done"
    /\ Len(samples) = 2
    /\ samples[1].graph.num_nodes = 2
    /\ samples[2].graph.num_nodes = 1
    /\ samples[1].graph_label # samples[2].graph_label
    /\ samples[1].node_labels = <<0, 1>>
    /\ samples[2].node_labels = <<1>>

(* ---- C2 *)
ConfiguredWeight == IF cfg.node_weight = None THEN HalfScale ELSE Val(cfg.node_weight)

\* C2: after every training iteration the loss that was backpropagated is,
\* with both heads, (1 - w) * graph_loss + w * node_loss for the configured
\* weight w in [0, 1] (graph_loss at w = 0, node_loss at w = 1, between the two
\* otherwise), and with one head that head's loss.
C2_BackpropagatedLoss ==
    AfterTrainBatch =>
        /\ (use_graph_head /\ use_node_head) =>
             /\ 0 <= ConfiguredWeight /\ ConfiguredWeight <= WScale
             /\ backpropagated =
                    Some((WScale - ConfiguredWeight) * Val(graph_loss)
                         + ConfiguredWeight * Val(node_loss))
             /\ ConfiguredWeight = 0 => backpropagated = Some(WScale * Val(graph_loss))
             /\ ConfiguredWeight = WScale => backpropagated = Some(WScale * Val(node_loss))
             /\ WScale * Min(Val(graph_loss), Val(node_loss)) <= Val(backpropagated)
             /\ Val(backpropagated) <= WScale * Max(Val(graph_loss), Val(node_loss))
        /\ (use_graph_head /\ ~use_node_head) =>
             backpropagated = Some(WScale * Val(graph_loss))
        /\ (use_node_head /\ ~use_graph_head) =>
             backpropagated = Some(WScale * Val(node_loss))

C2_Witness ==
    /\ AfterTrainBatch
    /\ use_graph_head /\ use_node_head
    /\ ConfiguredWeight = HalfScale
    /\ graph_loss = Some(0) /\ node_loss = Some(1)
    /\ backpropagated = Some(HalfScale)

(* ---- C3 *)
WeightOutOfRange ==
    /\ cfg.node_weight # None
    /\ (Val(cfg.node_weight) < 0 \/ Val(cfg.node_weight) > WScale)

\* No forward pass, backward pass or optimizer step has run.
NoTrainingIteration ==
    /\ train_batches = 0 /\ optimizer_steps = 0 /\ ops = <<>>
    /\ backpropagated = None /\ grad = {} /\ params = 0

FailedBeforeTraining ==
    /\ pc # "start" =>
         /\ pc = "failed"
         /\ error # None
         /\ Val(error).value = Val(cfg.node_weight)
    /\ NoTrainingIteration

\* C3 as stated: whenever the configured node weight is outside [0, 1] the run
\* fails, naming the value, before any training iteration.
C3_AnyBadWeightFails == WeightOutOfRange => FailedBeforeTraining

\* C3 amended: whenever both heads are configured and the node weight is
\* outside [0, 1] the run fails, naming the value, before any training
\* iteration.
C3_BadWeightFailsWithBothHeads ==
    (WeightOutOfRange /\ cfg.graph_classifier_config /\ cfg.node_classifier_config)
        => FailedBeforeTraining

C3_Witness ==
    /\ pc = "failed"
    /\ cfg.node_weight = Some(-1)
    /\ error = Some([type |-> "AssertionError", value |-> -1])

(* ---- C4 *)
\* C4: with neither head configured the run has failed before the first
\* training iteration: no iteration runs, so the optimizer never steps
\* without a loss having been backpropagated.
C4_NoHeadFailsFast ==
    (~cfg.graph_classifier_config /\ ~cfg.node_classifier_config) =>
        /\ train_batches = 0
        /\ optimizer_steps = 0

(* ---- C5 *)
Count(q, x) == Cardinality({i \in 1 .. Len(q) : q[i] = x})

\* C5: validation is entered in epoch e iff e mod validation_frequency = 0, at
\* most once per epoch, after the training pass and training flush of epoch e
\* and before the training pass of epoch e + 1.
C5_ValidationSchedule ==
    pc # "start" =>
        /\ \A e \in 0 .. MaxEpochs :
             /\ Count(valid_entries, e) <= 1
             /\ e < epoch =>
                  (Count(valid_entries, e) = 1 <=> e % cfg.validation_frequency = 0)
             /\ (e = epoch /\ pc = "valid") => Count(valid_entries, e) = 1
             /\ (e = epoch /\ pc # "valid") => Count(valid_entries, e) = 0
             /\ e > epoch => Count(valid_entries, e) = 0
             /\ Count(valid_entries, e) = 1 => e % cfg.validation_frequency = 0
        /\ pc = "valid" =>
             /\ Len(train_records) = epoch + 1
             /\ train_records[epoch + 1].step = epoch
             /\ train_acc = 0
             /\ train_batches * cfg.batch_size >= (epoch + 1) * cfg.n_train
             /\ train_batches * cfg.batch_size
                    < (epoch + 1) * (cfg.n_train + cfg.batch_size)

C5_Witness ==
    /\ pc = "done"
    /\ cfg.validation_frequency = 2
    /\ cfg.nr_epochs = 2
    /\ valid_entries = <<0>>

(* ---- C6 *)
\* C6: every validation epoch flushes the validation metrics exactly once,
\* tagged with the epoch; in test mode no flush is handed the model, outside
\* test mode every flush is.
C6_NoModelInTestMode ==
    /\ Len(valid_records)
         = Len(valid_entries) - (IF pc = "valid" THEN 1 ELSE 0)
    /\ \A i \in 1 .. Len(valid_records) :
         /\ valid_records[i].step = valid_entries[i]
         /\ cfg.test => valid_records[i].model = None
         /\ ~cfg.test => valid_records[i].model # None

C6_Witness ==
    /\ pc = "done"
    /\ cfg.test
    /\ Len(valid_records) >= 1
    /\ valid_records[1].model = None
    /\ valid_records[1].outputs >= 1

(* ---- C7 *)
\* n = ceil(m / b)
IsCeil(n, m, b) == n * b >= m /\ (n - 1) * b < m

\* C7: each training epoch consumes ceil(M / B) batches (2 for M = 4, B = 2)
\* and flushes one training record, tagged with the epoch and with a
\* non-negative duration; when the run is over it has flushed nr_epochs
\* records and nothing more can happen.
C7_OneTrainRecordPerEpoch ==
    pc # "start" =>
        /\ Len(train_records) = epoch + (IF pc \in {"check", "valid"} THEN 1 ELSE 0)
        /\ \A i \in 1 .. Len(train_records) :
             /\ train_records[i].step = i - 1
             /\ train_records[i].seconds >= 0
             /\ IsCeil(train_records[i].outputs, cfg.n_train, cfg.batch_size)
             /\ (cfg.n_train = 4 /\ cfg.batch_size = 2) => train_records[i].outputs = 2
        /\ pc = "done" =>
             /\ Len(train_records) = cfg.nr_epochs
             /\ \E n \in 1 .. cfg.n_train :
                  /\ IsCeil(n, cfg.n_train, cfg.batch_size)
                  /\ train_batches = cfg.nr_epochs * n
             /\ ~ENABLED Next

C7_Witness ==
    /\ pc = "done"
    /\ cfg.n_train = 4 /\ cfg.batch_size = 2 /\ cfg.nr_epochs = 2
    /\ train_batches = 4
    /\ Len(train_records) = 2
    /\ train_records[2] = [step |-> 1, outputs |-> 2, seconds |-> 2]

(* ---- C8 *)
\* What went wrong in the call, if anything.
CallFailed ==
    \/ (~call.s3_given /\ ~call.resource_ok)
    \/ (call.fn = "download_file_to_local" /\ ~(call.open_ok /\ call.transfer_ok))
    \/ (call.fn = "save_local_file" /\ ~call.transfer_ok)

\* The value the helper returns when nothing goes wrong.
SuccessValue ==
    IF call.fn = "download_file_to_local" THEN Some(call.local_name) ELSE None

\* C8: no failure inside download_file_to_local or save_local_file reaches the
\* caller as an exception, and a failed call returns a value that differs
\* from the one a successful call returns.
C8_FailuresAreSentinels ==
    spc = "done" =>
        /\ ~raised
        /\ CallFailed => result # SuccessValue
        /\ ~CallFailed => result = SuccessValue

(* ---- C9 *)
\* forward, the losses, backward, the optional clipping, one optimizer step,
\* then the record
IsTrainOrder(o, clip) ==
    \E losses \in {<<"graph_loss">>, <<"node_loss">>, <<"graph_loss", "node_loss">>} :
        o = <<"forward">> \o losses \o <<"backward">>
            \o (IF clip THEN <<"clip_grad_norm">> ELSE <<>>)
            \o <<"optimizer_step", "record">>

\* C9: every training iteration runs forward, loss, backward, optional
\* clipping and one optimizer step before recording; a validation iteration
\* runs neither backward nor an optimizer step; the optimizer has stepped once
\* per training batch and the parameters changed by those steps only.
C9_OnlyOptimizerStepWrites ==
    /\ AfterTrainBatch => IsTrainOrder(ops, cfg.clip_gradient_norm)
    /\ (pc = "valid" /\ iteration > 0) =>
         Range(ops) \cap {"backward", "optimizer_step"} = {}
    /\ optimizer_steps = train_batches
    /\ params <= optimizer_steps

(* ---- C10 *)
\* C10: with at least one head, the gradient an optimizer step applies is the
\* gradient of the current batch alone.
C10_GradientOfCurrentBatchOnly ==
    (AfterTrainBatch /\ (use_graph_head \/ use_node_head)) =>
        applied = {<<epoch, iteration - 1>>}

====
